---- MODULE Spec2Model ----
(***************************************************************************)
(* A model of powa/sql/__init__.py: the qual aggregation (resolve_quals,   *)
(* ComposedQual), the placeholder substitution (format_jumbled_query,      *)
(* get_plans), the index proposer (possible_indexes) and the hypothetical  *)
(* plan evaluator (get_hypoplans).                                         *)
(*                                                                         *)
(* Every function is run by its own specification (SpecRQ, SpecCQ, SpecFJ, *)
(* SpecGP, SpecPI, SpecHP): Init draws the call's arguments from bounded   *)
(* sets, the actions are the steps of the function's body, and the answers *)
(* of the database (catalog lookups, EXPLAIN) are chosen when the          *)
(* statement is executed.                                                  *)
(***************************************************************************)
EXTENDS Integers, Sequences, FiniteSets, TLC

VARIABLES
    \* resolve_quals
    quallist, rq_pc, rq_i, operator_to_look, attname_to_look,
    operators, attnames, new_qual_list, rq_error, rq_queries,
    \* ComposedQual
    cq_self, cq_arg, cq_exc, cq_calls,
    \* format_jumbled_query
    fj_sql, fj_params, fj_result, fj_pc,
    \* get_plans
    gp_jumbled, gp_qual, gp_query, gp_key, gp_plans, gp_pc, gp_executed,
    \* possible_indexes
    pi_composed, pi_pos, by_am, pi_indexes, pi_pc,
    \* get_hypoplans
    hp_pc, hp_indexes, hypopg_enabled, hp_in_trans, hp_statements,
    baseplan, hypoplan, basecost, hypocost, used_indexes

rqVars == <<quallist, rq_pc, rq_i, operator_to_look, attname_to_look,
            operators, attnames, new_qual_list, rq_error, rq_queries>>
cqVars == <<cq_self, cq_arg, cq_exc, cq_calls>>
fjVars == <<fj_sql, fj_params, fj_result, fj_pc>>
gpVars == <<gp_jumbled, gp_qual, gp_query, gp_key, gp_plans, gp_pc, gp_executed>>
piVars == <<pi_composed, pi_pos, by_am, pi_indexes, pi_pc>>
hpVars == <<hp_pc, hp_indexes, hypopg_enabled, hp_in_trans, hp_statements,
            baseplan, hypoplan, basecost, hypocost, used_indexes>>
vars == <<rqVars, cqVars, fjVars, gpVars, piVars, hpVars>>

\* The variables of the functions other than the one named.
notRQ == <<cqVars, fjVars, gpVars, piVars, hpVars>>
notCQ == <<rqVars, fjVars, gpVars, piVars, hpVars>>
notFJ == <<rqVars, cqVars, gpVars, piVars, hpVars>>
notGP == <<rqVars, cqVars, fjVars, piVars, hpVars>>
notPI == <<rqVars, cqVars, fjVars, gpVars, hpVars>>
notHP == <<rqVars, cqVars, fjVars, gpVars, piVars>>

\* Python's None, where a string is expected.
None == "None"

\* All sequences over S of length at most n.
SeqsUpTo(S, n) == UNION {[1..k -> S] : k \in 0..n}

(***************************************************************************)
(* ResolvedQual and ComposedQual                                           *)
(***************************************************************************)

\* ResolvedQual.__init__.  The statistics (n_distinct, most_common_values,
\* null_frac, example_values) are stored as given and read by nothing
\* modelled here; they are left out of the record.  "class" is the Python
\* type of the object, which ComposedQual.append tests.
ResolvedQual(nspname, relname, attname, opname, indexam_names, eval_type) ==
    [class |-> "ResolvedQual", nspname |-> nspname, relname |-> relname,
     attname |-> attname, opname |-> opname,
     indexam_names |-> indexam_names, eval_type |-> eval_type]

\* ComposedQual.__init__: the fields as given, and no part.
ComposedQual(nspname, relname, nbfiltered, filter_ratio, count, table_liverows, qualid) ==
    [qualid |-> qualid, relname |-> relname, nspname |-> nspname,
     nbfiltered |-> nbfiltered, filter_ratio |-> filter_ratio,
     count |-> count, table_liverows |-> table_liverows, quals |-> <<>>]

\* A variant of append that also refuses a part of another relation than
\* the one the ComposedQual has.
ComposedQual_append_checked(self, element) ==
    IF element.class # "ResolvedQual"
       \/ (self.relname # None /\ element.relname # self.relname)
    THEN [self |-> self, exc |-> "ValueError"]
    ELSE [self |-> [self EXCEPT !.quals = Append(@, element)], exc |-> "none"]

\* ComposedQual.append: ValueError unless the element is a ResolvedQual,
\* else the element is added at the end of _quals.
ComposedQual_append(self, element) ==
    IF element.class # "ResolvedQual"
    THEN [self |-> self, exc |-> "ValueError"]
    ELSE [self |-> [self EXCEPT !.quals = Append(@, element)], exc |-> "none"]

(***************************************************************************)
(* resolve_quals                                                           *)
(***************************************************************************)

\* Bounds of the input of resolve_quals: rows, and predicate references
\* over all rows.
MaxRows == 2
MaxTotalRefs == 3

\* The predicate references of the input: a constant-only one (relid '0'),
\* a column of relation 1 and a column of relation 2.
PredicateRefs ==
    { [opno |-> "96", relid |-> "0", attnum |-> 0, eval_type |-> "f"],
      [opno |-> "96", relid |-> "1", attnum |-> 1, eval_type |-> "i"],
      [opno |-> "97", relid |-> "2", attnum |-> 1, eval_type |-> "f"] }

\* row[attribute] holding n references: a list of them, or, for n = 1, also
\* the reference itself, not in a list (isList = FALSE, items = <<it>>).
QualsValues(n) ==
    {[isList |-> TRUE, items |-> s] : s \in [1..n -> PredicateRefs]}
    \cup (IF n # 1 THEN {}
          ELSE {[isList |-> FALSE, items |-> <<r>>] : r \in PredicateRefs})

\* The other fields of a row go with its qualid.
RowOf(qualid, q) ==
    [quals |-> q, qualid |-> qualid, count |-> 10 * qualid,
     nbfiltered |-> 3 * qualid, filter_ratio |-> 30]

\* The rows that hold n references.
RowsOf(n) == {RowOf(id, q) : id \in 1..2, q \in QualsValues(n)}

RECURSIVE QualLists(_, _)
\* The inputs of at most m rows holding at most n references together.
QualLists(m, n) ==
    IF m = 0 THEN {<<>>}
    ELSE {<<>>} \cup
         UNION { {<<row>> \o rest : row \in RowsOf(k),
                                    rest \in QualLists(m - 1, n - k)}
                 : k \in 0..n }

\* What pg_attribute, pg_class and pg_namespace hold: relation 1 is
\* public.t; relation 2 is public.u, or other.t (a relation of the same
\* name in another schema), or was dropped.  relid '0' is no relation.
AttCatalogs ==
    LET t1 == [relname |-> "t", attname |-> "a", nspname |-> "public",
               table_liverows |-> "100"]
        u1 == [relname |-> "u", attname |-> "c", nspname |-> "public",
               table_liverows |-> "7"]
        o1 == [relname |-> "t", attname |-> "c", nspname |-> "other",
               table_liverows |-> "7"]
        k11 == <<"1", 1>>
        k21 == <<"2", 1>>
    IN { (k11 :> t1) @@ (k21 :> u1), (k11 :> t1) @@ (k21 :> o1), (k11 :> t1) }

\* What pg_operator and pg_amop hold: both operators, or only the first.
OperatorCatalogs ==
    LET eq == [name |-> "=", indexam_names |-> <<"btree">>]
        lt == [name |-> "<", indexam_names |-> <<"brin", "btree">>]
    IN { ("96" :> eq) @@ ("97" :> lt), ("96" :> eq) }

\* json_object_agg(...) ... WHERE key IN :list, as a mapping.
Restrict(catalog, keys) ==
    [k \in (DOMAIN catalog) \cap keys |-> catalog[k]]

\* "%s.%s" % (v["relid"], v["attnum"]): the key of an attribute.
AttKey(v) == <<v.relid, v.attnum>>

\* The error of mapping[key] when the key is absent: scalar() is None when
\* the executed query aggregated no row, and a dict otherwise.
LookupFault(mapping, query) ==
    IF DOMAIN mapping = {} /\ (\E k \in 1..Len(rq_queries) : rq_queries[k] = query)
    THEN "TypeError" ELSE "KeyError"

\* Lines 165-166: a value that is not a list is put in a list.
AsList(q) == IF q.isList THEN q.items ELSE <<q.items[1]>>

RECURSIVE KeepRelations(_)
\* Line 188: [v for v in values if v['relid'] != '0'].
KeepRelations(s) ==
    IF s = <<>> THEN <<>>
    ELSE IF Head(s).relid # "0" THEN <<Head(s)>> \o KeepRelations(Tail(s))
         ELSE KeepRelations(Tail(s))

\* A variant of lines 192-210 without the relation test of lines 193-196.
ResolvePart_unchecked(newqual, v) ==
    IF AttKey(v) \notin DOMAIN attnames
    THEN [self |-> newqual, exc |-> LookupFault(attnames, "RESOLVE_ATTNAME")]
    ELSE
    LET attname == attnames[AttKey(v)]
        named   == IF newqual.relname # None THEN newqual
                   ELSE [newqual EXCEPT !.relname = attname.relname,
                                        !.nspname = attname.nspname,
                                        !.table_liverows = attname.table_liverows]
    IN  IF v.opno \notin DOMAIN operators
        THEN [self |-> named, exc |-> LookupFault(operators, "RESOLVE_OPNAME")]
        ELSE ComposedQual_append(named,
                 ResolvedQual(attname.nspname, attname.relname,
                              attname.attname, operators[v.opno].name,
                              operators[v.opno].indexam_names, v.eval_type))

\* Lines 192-210, the body of the loop over the references of a row.
ResolvePart(newqual, v) ==
    IF AttKey(v) \notin DOMAIN attnames
    THEN [self |-> newqual, exc |-> LookupFault(attnames, "RESOLVE_ATTNAME")]
    ELSE
    LET attname == attnames[AttKey(v)]
    IN  IF newqual.relname # None /\ newqual.relname # attname.relname
        THEN [self |-> newqual, exc |-> "ValueError"]
        ELSE
        LET named == IF newqual.relname # None THEN newqual
                     ELSE [newqual EXCEPT !.relname = attname.relname,
                                          !.nspname = attname.nspname,
                                          !.table_liverows = attname.table_liverows]
        IN  IF v.opno \notin DOMAIN operators
            THEN [self |-> named, exc |-> LookupFault(operators, "RESOLVE_OPNAME")]
            ELSE ComposedQual_append(named,
                     ResolvedQual(attname.nspname, attname.relname,
                                  attname.attname, operators[v.opno].name,
                                  operators[v.opno].indexam_names, v.eval_type))

RECURSIVE ResolveParts(_, _)
\* Line 191, the loop over the references: it ends at the first exception.
ResolveParts(newqual, values) ==
    IF values = <<>> THEN [self |-> newqual, exc |-> "none"]
    ELSE LET r == ResolvePart(newqual, Head(values))
         IN  IF r.exc # "none" THEN r ELSE ResolveParts(r.self, Tail(values))

\* Line 188: the comprehension iterates row[attribute] itself.  Iterating a
\* reference that is not in a list (a dict) yields its keys, and v['relid']
\* of a key (a string) is a TypeError; lines 189-190 come too late.
FilterValues(q) ==
    IF q.isList THEN [values |-> KeepRelations(q.items), exc |-> "none"]
    ELSE [values |-> <<>>, exc |-> "TypeError"]

RQInit ==
    /\ quallist \in QualLists(MaxRows, MaxTotalRefs)
    /\ rq_pc = "collect"
    /\ rq_i = 1
    /\ operator_to_look = {}
    /\ attname_to_look = {}
    /\ operators = <<>>
    /\ attnames = <<>>
    /\ new_qual_list = <<>>
    /\ rq_error = "none"
    /\ rq_queries = <<>>

\* Lines 163-169: one row of the first loop.
Collect ==
    /\ rq_pc = "collect"
    /\ IF rq_i <= Len(quallist)
       THEN LET values == AsList(quallist[rq_i].quals)
                idx    == 1..Len(values)
            IN /\ operator_to_look' =
                      operator_to_look \cup {values[k].opno : k \in idx}
               /\ attname_to_look' =
                      attname_to_look \cup {AttKey(values[k]) : k \in idx}
               /\ rq_i' = rq_i + 1
               /\ rq_pc' = rq_pc
       ELSE /\ rq_pc' = "operators"
            /\ UNCHANGED <<operator_to_look, attname_to_look, rq_i>>
    /\ UNCHANGED <<quallist, operators, attnames, new_qual_list, rq_error,
                   rq_queries>>
    /\ UNCHANGED notRQ

\* A variant of line 170 without the test: the query is always sent.
SendOperatorQuery_always == TRUE

\* Line 170: if operator_to_look.
SendOperatorQuery == operator_to_look # {}

\* Lines 170-173.
LookupOperators ==
    /\ rq_pc = "operators"
    /\ IF SendOperatorQuery
       THEN \E catalog \in OperatorCatalogs :
               /\ operators' = Restrict(catalog, operator_to_look)
               /\ rq_queries' = Append(rq_queries, "RESOLVE_OPNAME")
       ELSE UNCHANGED <<operators, rq_queries>>
    /\ rq_pc' = "attributes"
    /\ UNCHANGED <<quallist, rq_i, operator_to_look, attname_to_look,
                   attnames, new_qual_list, rq_error>>
    /\ UNCHANGED notRQ

\* Lines 174-177.
LookupAttributes ==
    /\ rq_pc = "attributes"
    /\ IF attname_to_look # {}
       THEN \E catalog \in AttCatalogs :
               /\ attnames' = Restrict(catalog, attname_to_look)
               /\ rq_queries' = Append(rq_queries, "RESOLVE_ATTNAME")
       ELSE UNCHANGED <<attnames, rq_queries>>
    /\ rq_pc' = "build"
    /\ rq_i' = 1
    /\ UNCHANGED <<quallist, operator_to_look, attname_to_look, operators,
                   new_qual_list, rq_error>>
    /\ UNCHANGED notRQ

\* A variant of line 187 that puts the new ComposedQual first.
AddQual_front(list, newqual) == <<newqual>> \o list

\* Line 187: new_qual_list.append(newqual).  The list holds the object, so
\* the parts appended afterwards are seen through it: the model adds the
\* ComposedQual as it is when the row is done.
AddQual(list, newqual) == Append(list, newqual)

\* Lines 179-210: one row of the second loop; line 211 after the last.
BuildRow ==
    /\ rq_pc = "build"
    /\ IF rq_i <= Len(quallist)
       THEN LET row     == quallist[rq_i]
                newqual == ComposedQual(None, None, row.nbfiltered,
                                        row.filter_ratio, row.count, None,
                                        row.qualid)
                f       == FilterValues(row.quals)
                r       == IF f.exc # "none"
                           THEN [self |-> newqual, exc |-> f.exc]
                           ELSE ResolveParts(newqual, f.values)
            IN IF r.exc = "none"
               THEN /\ new_qual_list' = AddQual(new_qual_list, r.self)
                    /\ rq_i' = rq_i + 1
                    /\ UNCHANGED <<rq_pc, rq_error>>
               ELSE /\ rq_pc' = "raised"
                    /\ rq_error' = r.exc
                    /\ UNCHANGED <<new_qual_list, rq_i>>
       ELSE /\ rq_pc' = "done"
            /\ UNCHANGED <<new_qual_list, rq_i, rq_error>>
    /\ UNCHANGED <<quallist, operator_to_look, attname_to_look, operators,
                   attnames, rq_queries>>
    /\ UNCHANGED notRQ

(***************************************************************************)
(* ComposedQual.append, called on its own                                  *)
(***************************************************************************)

\* Bound of the parts of a ComposedQual (and of the calls of append).
MaxParts == 3

\* What a caller may pass to append: two ResolvedQual on t, one on u, and
\* an object that is not a ResolvedQual (a raw predicate reference, a dict).
Elements ==
    { ResolvedQual("public", "t", "a", "=", <<"btree">>, "f"),
      ResolvedQual("public", "t", "b", "<", <<"brin", "btree">>, "i"),
      ResolvedQual("public", "u", "c", "=", <<"btree">>, "f"),
      [ResolvedQual("public", "t", "a", "=", <<"btree">>, "f")
          EXCEPT !.class = "dict"] }

NoElement ==
    [ResolvedQual(None, None, None, None, <<>>, None) EXCEPT !.class = "NoneType"]

\* ComposedQual(...) with or without a relation.
CQInit ==
    /\ cq_self \in { ComposedQual(None, None, 3, 30, 10, None, 1),
                     ComposedQual("public", "t", 3, 30, 10, "100", 1),
                     ComposedQual("public", "u", 3, 30, 10, "7", 1) }
    /\ cq_arg = NoElement
    /\ cq_exc = "none"
    /\ cq_calls = 0

\* One call self.append(element).
CQAppend ==
    /\ cq_calls < MaxParts
    /\ \E element \in Elements :
          LET r == ComposedQual_append(cq_self, element)
          IN /\ cq_self' = r.self
             /\ cq_exc' = r.exc
             /\ cq_arg' = element
    /\ cq_calls' = cq_calls + 1
    /\ UNCHANGED notCQ

(***************************************************************************)
(* format_jumbled_query                                                    *)
(***************************************************************************)

\* Bounds: the tokens of a query text, and the constants of a sample.
MaxSqlLen == 3
MaxParams == 2

\* A query text is a sequence of tokens; "?" is the placeholder, the one
\* token the pattern "\?" matches.
SqlTokens == {"x", "?"}

RECURSIVE ReSub(_, _)
\* re.sub("\?", lambda val: next(it), sql): the matches are replaced from
\* left to right, each by the next item of the iterator; next() on the
\* exhausted iterator raises StopIteration, which leaves re.sub.
ReSub(sql, it) ==
    IF sql = <<>> THEN [out |-> <<>>, exc |-> "none"]
    ELSE IF Head(sql) = "?"
         THEN IF it = <<>> THEN [out |-> <<>>, exc |-> "StopIteration"]
              ELSE LET r == ReSub(Tail(sql), Tail(it))
                   IN [out |-> <<Head(it)>> \o r.out, exc |-> r.exc]
         ELSE LET r == ReSub(Tail(sql), it)
              IN [out |-> <<Head(sql)>> \o r.out, exc |-> r.exc]

\* format_jumbled_query: when StopIteration is caught the assignment of
\* line 24 has not happened, and sql is still the argument.
format_jumbled_query(sql, params) ==
    LET r == ReSub(sql, params)
    IN IF r.exc = "StopIteration" THEN sql ELSE r.out

FJInit ==
    /\ fj_sql \in SeqsUpTo(SqlTokens, MaxSqlLen)
    /\ fj_params \in SeqsUpTo({"1", "2"}, MaxParams)
    /\ fj_result = <<>>
    /\ fj_pc = "call"

FJCall ==
    /\ fj_pc = "call"
    /\ fj_result' = format_jumbled_query(fj_sql, fj_params)
    /\ fj_pc' = "done"
    /\ UNCHANGED <<fj_sql, fj_params>>
    /\ UNCHANGED notFJ

(***************************************************************************)
(* get_plans                                                               *)
(***************************************************************************)

\* Line 274.
Keys == <<"most filtering", "least filtering", "most executed">>

\* The sample of each criterion has its own constants.
KeyConstant == [k \in 1..3 |-> <<"1", "2", "3">>[k]]

\* qual[key]: constants, filter_ratio and count of the criterion's sample.
Samples(k) ==
    {[constants |-> [i \in 1..n |-> KeyConstant[k]],
      filter_ratio |-> 10 * k, count |-> k] : n \in 0..MaxParams}

\* What self.execute("EXPLAIN ...") does: it returns the plan, or raises.
ExplainOutcomes ==
    { [raises |-> FALSE, text |-> "Seq Scan"],
      [raises |-> FALSE, text |-> "Index Scan"],
      [raises |-> TRUE,  text |-> "ERROR"] }

\* A variant of lines 277-283 without the try: the exception leaves
\* get_plans.
Explain_propagating(outcome) ==
    [plan |-> IF outcome.raises THEN "N/A" ELSE outcome.text,
     raised |-> outcome.raises]

\* Lines 277-283: plan is "N/A" unless the EXPLAIN succeeded; the bare
\* except lets no exception through.
Explain(outcome) ==
    [plan |-> IF outcome.raises THEN "N/A" ELSE outcome.text,
     raised |-> FALSE]

\* Plan(title, values, query, plan, filter_ratio, exec_count).
Plan(title, values, query, plan, filter_ratio, exec_count) ==
    [title |-> title, values |-> values, query |-> query, plan |-> plan,
     filter_ratio |-> filter_ratio, exec_count |-> exec_count]

GPInit ==
    /\ gp_jumbled \in SeqsUpTo(SqlTokens, MaxSqlLen)
    /\ gp_qual \in [1..3 -> UNION {Samples(k) : k \in 1..3}]
    /\ \A k \in 1..3 : gp_qual[k] \in Samples(k)
    /\ gp_query = gp_jumbled
    /\ gp_key = 1
    /\ gp_plans = <<>>
    /\ gp_pc = "loop"
    /\ gp_executed = <<>>

\* Lines 275-285: the body of the loop for one key; line 286 after the last.
GetPlansStep ==
    /\ gp_pc = "loop"
    /\ IF gp_key <= Len(Keys)
       THEN LET vals  == gp_qual[gp_key]
                query == format_jumbled_query(gp_query, vals.constants)
            IN \E outcome \in ExplainOutcomes :
                  LET e == Explain(outcome)
                  IN /\ gp_query' = query
                     /\ gp_executed' = Append(gp_executed,
                            [query |-> query, outcome |-> outcome])
                     /\ IF e.raised
                        THEN /\ gp_pc' = "raised"
                             /\ UNCHANGED <<gp_plans, gp_key>>
                        ELSE /\ gp_plans' = Append(gp_plans,
                                    Plan(Keys[gp_key], vals.constants, query,
                                         e.plan, vals.filter_ratio, vals.count))
                             /\ gp_key' = gp_key + 1
                             /\ gp_pc' = gp_pc
       ELSE /\ gp_pc' = "done"
            /\ UNCHANGED <<gp_query, gp_key, gp_plans, gp_executed>>
    /\ UNCHANGED <<gp_jumbled, gp_qual>>
    /\ UNCHANGED notGP

(***************************************************************************)
(* possible_indexes                                                        *)
(***************************************************************************)

\* The parts of the ComposedQual given to possible_indexes: columns a and b
\* of public.t and column a of other.u, each with the access methods of its
\* operator (array_agg(distinct amname ORDER BY amname): sorted, no
\* repetition, possibly empty).
IndexParts ==
    { ResolvedQual(c[1], c[2], c[3], "=", ams, "f") :
        c \in { <<"public", "t", "a">>, <<"public", "t", "b">>,
                <<"other", "u", "a">> },
        ams \in { <<>>, <<"btree">>, <<"brin">>, <<"brin", "btree">> } }

\* HypoIndex.__init__.
HypoIndex(nspname, relname, amname, composed_qual) ==
    [nspname |-> nspname, relname |-> relname, qual |-> composed_qual,
     amname |-> amname, name |-> None]

\* by_am[am].append(qual) on a defaultdict(list).
DictAppend(d, am, qual) ==
    IF am \in DOMAIN d THEN [d EXCEPT ![am] = Append(@, qual)]
    ELSE [k \in (DOMAIN d) \cup {am} |-> IF k = am THEN <<qual>> ELSE d[k]]

RECURSIVE GroupPart(_, _, _)
\* Lines 372-373: the part is added to the list of each of its methods.
GroupPart(d, ams, qual) ==
    IF ams = <<>> THEN d
    ELSE GroupPart(DictAppend(d, Head(ams), qual), Tail(ams), qual)

\* A variant of lines 376-380 that takes the relation of the last part.
IndexOf_last(am, quals) ==
    HypoIndex(quals[Len(quals)].nspname, quals[Len(quals)].relname, am, quals)

\* Lines 376-380: the index of one access method.
IndexOf(am, quals) ==
    HypoIndex(quals[1].nspname, quals[1].relname, am, quals)

PIInit ==
    /\ pi_composed \in SeqsUpTo(IndexParts, MaxParts)
    /\ pi_pos = 1
    /\ by_am = <<>>
    /\ pi_indexes = <<>>
    /\ pi_pc = "group"

\* Lines 371-373: one part of the ComposedQual.
GroupStep ==
    /\ pi_pc = "group"
    /\ IF pi_pos <= Len(pi_composed)
       THEN /\ by_am' = GroupPart(by_am, pi_composed[pi_pos].indexam_names,
                                  pi_composed[pi_pos])
            /\ pi_pos' = pi_pos + 1
            /\ pi_pc' = pi_pc
       ELSE /\ pi_pc' = "emit"
            /\ UNCHANGED <<by_am, pi_pos>>
    /\ UNCHANGED <<pi_composed, pi_indexes>>
    /\ UNCHANGED notPI

\* Lines 375-381: one item of by_am.items(), in the order the dict gives
\* (any order: the dict of the interpreter may not keep insertion order);
\* the return after the last.
EmitStep ==
    /\ pi_pc = "emit"
    /\ LET emitted == {pi_indexes[k].amname : k \in 1..Len(pi_indexes)}
       IN IF (DOMAIN by_am) \ emitted # {}
          THEN \E am \in (DOMAIN by_am) \ emitted :
                  /\ pi_indexes' = Append(pi_indexes, IndexOf(am, by_am[am]))
                  /\ pi_pc' = pi_pc
          ELSE /\ pi_pc' = "done"
               /\ UNCHANGED pi_indexes
    /\ UNCHANGED <<pi_composed, pi_pos, by_am>>
    /\ UNCHANGED notPI

(***************************************************************************)
(* get_hypoplans                                                           *)
(***************************************************************************)

\* Bound of the indexes given to get_hypoplans.
MaxIndexes == 2

\* An index is looked up by its name, None while it is not created.
IndexNames == {None, "idx1", "idx2"}

\* The text of a plan, by what get_hypoplans reads in it: the first token
\* COST_RE matches (None when it matches nothing) and the index names that
\* occur in the text.
PlanTexts ==
    [cost : {None, "10.00", "25.50"},
     mentions : {{}, {"idx1"}, {"idx1", "idx2"}}]

\* A local variable that is not assigned yet.
Unbound == "unbound"
UnboundPlan == [cost |-> Unbound, mentions |-> {}]

\* A variant of lines 398-401 with the first two statements exchanged.
Protocol_explain_first ==
    <<"EXPLAIN query", "SET hypopg.enabled = off",
      "SET hypopg.enabled = on", "EXPLAIN query">>

\* The statements of lines 398-401.
Protocol ==
    <<"SET hypopg.enabled = off", "EXPLAIN query",
      "SET hypopg.enabled = on", "EXPLAIN query">>

\* hypopg.enabled of the session after a statement.
Setting(statement, enabled) ==
    IF statement = "SET hypopg.enabled = off" THEN FALSE
    ELSE IF statement = "SET hypopg.enabled = on" THEN TRUE
    ELSE enabled

HPInit ==
    /\ hp_pc = "begin"
    /\ hp_indexes \in SeqsUpTo(IndexNames, MaxIndexes)
    /\ hypopg_enabled \in BOOLEAN
    /\ hp_in_trans = FALSE
    /\ hp_statements = <<>>
    /\ baseplan = UnboundPlan
    /\ hypoplan = UnboundPlan
    /\ basecost = Unbound
    /\ hypocost = Unbound
    /\ used_indexes = <<>>

\* Line 397: with conn.begin() as trans.
Begin ==
    /\ hp_pc = "begin"
    /\ hp_in_trans' = TRUE
    /\ hp_pc' = "execute"
    /\ UNCHANGED <<hp_indexes, hypopg_enabled, hp_statements, baseplan,
                   hypoplan, basecost, hypocost, used_indexes>>
    /\ UNCHANGED notHP

\* Lines 398-401: the next trans.execute.  The statement is recorded with
\* the session it ran in (inside the transaction or not, hypopg.enabled
\* before and after it); the first EXPLAIN of the body returns the plan
\* kept in baseplan, the second the plan kept in hypoplan.
Execute ==
    /\ hp_pc = "execute"
    /\ Len(hp_statements) < Len(Protocol)
    /\ LET n         == Len(hp_statements) + 1
           statement == Protocol[n]
       IN /\ hypopg_enabled' = Setting(statement, hypopg_enabled)
          /\ hp_statements' = Append(hp_statements,
                 [sql |-> statement, in_trans |-> hp_in_trans,
                  before |-> hypopg_enabled, enabled |-> hypopg_enabled'])
          /\ IF statement = "EXPLAIN query"
             THEN \E text \in PlanTexts :
                     IF \A k \in 1..Len(hp_statements) :
                           hp_statements[k].sql # "EXPLAIN query"
                     THEN baseplan' = text /\ hypoplan' = hypoplan
                     ELSE hypoplan' = text /\ baseplan' = baseplan
             ELSE UNCHANGED <<baseplan, hypoplan>>
    /\ UNCHANGED <<hp_pc, hp_indexes, hp_in_trans, basecost, hypocost,
                   used_indexes>>
    /\ UNCHANGED notHP

\* A trans.execute of lines 398-401 raises: the with block is left by the
\* exception, the transaction is rolled back and get_hypoplans raises.
\* What the rollback leaves in hypopg.enabled is the server's matter.
ExecuteFails ==
    /\ hp_pc = "execute"
    /\ Len(hp_statements) < Len(Protocol)
    /\ hp_in_trans' = FALSE
    /\ hp_pc' = "raised"
    /\ hypopg_enabled' \in BOOLEAN
    /\ UNCHANGED <<hp_indexes, hp_statements, baseplan,
                   hypoplan, basecost, hypocost, used_indexes>>
    /\ UNCHANGED notHP

\* The end of the with block of line 397.
Commit ==
    /\ hp_pc = "execute"
    /\ Len(hp_statements) = Len(Protocol)
    /\ hp_in_trans' = FALSE
    /\ hp_pc' = "costs"
    /\ UNCHANGED <<hp_indexes, hypopg_enabled, hp_statements, baseplan,
                   hypoplan, basecost, hypocost, used_indexes>>
    /\ UNCHANGED notHP

\* Lines 402-406: m.group(0) of each plan; m is None, and m.group an
\* AttributeError, when the plan has no cost.
ExtractCosts ==
    /\ hp_pc = "costs"
    /\ IF baseplan.cost = None
       THEN hp_pc' = "raised" /\ UNCHANGED <<basecost, hypocost>>
       ELSE IF hypoplan.cost = None
            THEN /\ hp_pc' = "raised"
                 /\ basecost' = baseplan.cost
                 /\ hypocost' = hypocost
            ELSE /\ hp_pc' = "used"
                 /\ basecost' = baseplan.cost
                 /\ hypocost' = hypoplan.cost
    /\ UNCHANGED <<hp_indexes, hypopg_enabled, hp_in_trans, hp_statements,
                   baseplan, hypoplan, used_indexes>>
    /\ UNCHANGED notHP

RECURSIVE UsedIn(_, _)
\* Lines 407-412: the indexes that have a name, which is in the plan.
UsedIn(indexes, plan) ==
    IF indexes = <<>> THEN <<>>
    ELSE IF Head(indexes) # None /\ Head(indexes) \in plan.mentions
         THEN <<Head(indexes)>> \o UsedIn(Tail(indexes), plan)
         ELSE UsedIn(Tail(indexes), plan)

\* Lines 407-413.
CollectUsed ==
    /\ hp_pc = "used"
    /\ used_indexes' = UsedIn(hp_indexes, hypoplan)
    /\ hp_pc' = "done"
    /\ UNCHANGED <<hp_indexes, hypopg_enabled, hp_in_trans, hp_statements,
                   baseplan, hypoplan, basecost, hypocost>>
    /\ UNCHANGED notHP

(***************************************************************************)
(* Specifications: one function each, the others not called                *)
(***************************************************************************)

RQIdle == quallist = <<>> /\ rq_pc = "idle" /\ rq_i = 1
          /\ operator_to_look = {} /\ attname_to_look = {}
          /\ operators = <<>> /\ attnames = <<>> /\ new_qual_list = <<>>
          /\ rq_error = "none" /\ rq_queries = <<>>
CQIdle == cq_self = ComposedQual(None, None, 0, 0, 0, None, 0)
          /\ cq_arg = NoElement /\ cq_exc = "none" /\ cq_calls = MaxParts
FJIdle == fj_sql = <<>> /\ fj_params = <<>> /\ fj_result = <<>>
          /\ fj_pc = "idle"
GPIdle == gp_jumbled = <<>> /\ gp_qual = <<>> /\ gp_query = <<>>
          /\ gp_key = 1 /\ gp_plans = <<>> /\ gp_pc = "idle"
          /\ gp_executed = <<>>
PIIdle == pi_composed = <<>> /\ pi_pos = 1 /\ by_am = <<>>
          /\ pi_indexes = <<>> /\ pi_pc = "idle"
HPIdle == hp_pc = "idle" /\ hp_indexes = <<>> /\ hypopg_enabled = FALSE
          /\ hp_in_trans = FALSE /\ hp_statements = <<>>
          /\ baseplan = UnboundPlan /\ hypoplan = UnboundPlan
          /\ basecost = Unbound /\ hypocost = Unbound /\ used_indexes = <<>>

InitRQ == RQInit /\ CQIdle /\ FJIdle /\ GPIdle /\ PIIdle /\ HPIdle
NextRQ == Collect \/ LookupOperators \/ LookupAttributes \/ BuildRow
SpecRQ == InitRQ /\ [][NextRQ]_vars

InitCQ == RQIdle /\ CQInit /\ FJIdle /\ GPIdle /\ PIIdle /\ HPIdle
NextCQ == CQAppend
SpecCQ == InitCQ /\ [][NextCQ]_vars

InitFJ == RQIdle /\ CQIdle /\ FJInit /\ GPIdle /\ PIIdle /\ HPIdle
NextFJ == FJCall
SpecFJ == InitFJ /\ [][NextFJ]_vars

InitGP == RQIdle /\ CQIdle /\ FJIdle /\ GPInit /\ PIIdle /\ HPIdle
NextGP == GetPlansStep
SpecGP == InitGP /\ [][NextGP]_vars

InitPI == RQIdle /\ CQIdle /\ FJIdle /\ GPIdle /\ PIInit /\ HPIdle
NextPI == GroupStep \/ EmitStep
SpecPI == InitPI /\ [][NextPI]_vars

InitHP == RQIdle /\ CQIdle /\ FJIdle /\ GPIdle /\ PIIdle /\ HPInit
NextHP == Begin \/ Execute \/ ExecuteFails \/ Commit \/ ExtractCosts \/ CollectUsed
SpecHP == InitHP /\ [][NextHP]_vars

(***************************************************************************)
(* resolve_quals: claims C1, C3, C4, C5 (SpecRQ)                           *)
(***************************************************************************)

\* The call has ended: it returned new_qual_list (done) or raised.
RQReturned == rq_pc = "done"
RQRaised   == rq_pc = "raised"

\* The references of a row that name a relation, in the row's order.
RelationRefs(row) == KeepRelations(row.quals.items)

\* C1: when resolve_quals returns, the list has one ComposedQual per input
\* row, in input order: the i-th carries count, nbfiltered, filter_ratio
\* and qualid of the i-th row.
C1_OnePerRowInOrder ==
    RQReturned =>
        /\ Len(new_qual_list) = Len(quallist)
        /\ \A i \in 1..Len(quallist) :
              /\ new_qual_list[i].count = quallist[i].count
              /\ new_qual_list[i].nbfiltered = quallist[i].nbfiltered
              /\ new_qual_list[i].filter_ratio = quallist[i].filter_ratio
              /\ new_qual_list[i].qualid = quallist[i].qualid

\* C1, its case: two rows of different qualid, each with a part, returned.
C1_Witness ==
    /\ RQReturned
    /\ Len(quallist) = 2
    /\ quallist[1].qualid # quallist[2].qualid
    /\ \A i \in 1..2 : new_qual_list[i].quals # <<>>

\* A later reference of the row resolves to another relation name than the
\* first reference that names a relation.
HasMismatch(row) ==
    /\ row.quals.isList
    /\ LET refs == RelationRefs(row)
       IN \E k \in 2..Len(refs) :
             /\ AttKey(refs[1]) \in DOMAIN attnames
             /\ AttKey(refs[k]) \in DOMAIN attnames
             /\ attnames[AttKey(refs[k])].relname
                    # attnames[AttKey(refs[1])].relname

\* Every row is a list and every reference that names a relation has its
\* attribute and its operator in the lookups' answers.
AllResolved ==
    \A i \in 1..Len(quallist) :
        /\ quallist[i].quals.isList
        /\ LET refs == RelationRefs(quallist[i])
           IN \A k \in 1..Len(refs) :
                 /\ AttKey(refs[k]) \in DOMAIN attnames
                 /\ refs[k].opno \in DOMAIN operators

\* C3: in a returned list, each ComposedQual has relname, nspname and
\* table_liverows of the first reference of its row whose relid is not '0'
\* (None when the row has none), one part per such reference, in order,
\* and every part has the ComposedQual's relname; a row with a later such
\* reference on another relation name makes the call raise and return no
\* list, the error being ValueError (when all references resolve), and
\* ValueError is raised for no other reason.
C3_RelationOfFirstPart ==
    /\ RQReturned =>
          \A i \in 1..Len(quallist) :
             LET refs == RelationRefs(quallist[i])
                 cq   == new_qual_list[i]
             IN /\ Len(cq.quals) = Len(refs)
                /\ IF refs = <<>>
                   THEN /\ cq.relname = None
                        /\ cq.nspname = None
                        /\ cq.table_liverows = None
                   ELSE LET first == attnames[AttKey(refs[1])]
                        IN /\ cq.relname = first.relname
                           /\ cq.nspname = first.nspname
                           /\ cq.table_liverows = first.table_liverows
                /\ \A k \in 1..Len(refs) :
                      /\ cq.quals[k].relname = cq.relname
                      /\ cq.quals[k].attname = attnames[AttKey(refs[k])].attname
                      /\ cq.quals[k].opname = operators[refs[k].opno].name
                      /\ cq.quals[k].eval_type = refs[k].eval_type
    /\ (RQReturned \/ RQRaised) =>
          /\ (\E i \in 1..Len(quallist) : HasMismatch(quallist[i]))
                => RQRaised
          /\ (AllResolved /\ \E i \in 1..Len(quallist) : HasMismatch(quallist[i]))
                => rq_error = "ValueError"
          /\ rq_error = "ValueError"
                => HasMismatch(quallist[rq_i])

\* C3, its case: the first row was built, and the second row, which also
\* holds a reference with relid '0', raised ValueError.
C3_Witness ==
    /\ RQRaised
    /\ rq_error = "ValueError"
    /\ rq_i = 2
    /\ Len(new_qual_list) = 1
    /\ \E k \in 1..Len(quallist[2].quals.items) :
          quallist[2].quals.items[k].relid = "0"

\* The executions of a lookup query.
Executions(query) ==
    Cardinality({k \in 1..Len(rq_queries) : rq_queries[k] = query})

\* The references of the input, whatever the shape of the rows.
InputRefs ==
    UNION { {quallist[i].quals.items[k] : k \in 1..Len(quallist[i].quals.items)}
            : i \in 1..Len(quallist) }

\* C4: whatever the rows and references, each lookup is executed at most
\* once; once the lookups are past, the operator lookup was executed once
\* if an operator id was collected and not at all if none was, and the
\* same for the attribute lookup; with empty input no query is executed and
\* the empty list is returned.
C4_OneLookupEach ==
    /\ Executions("RESOLVE_OPNAME") <= 1
    /\ Executions("RESOLVE_ATTNAME") <= 1
    /\ Len(rq_queries) = Executions("RESOLVE_OPNAME") + Executions("RESOLVE_ATTNAME")
    /\ rq_pc \in {"build", "done", "raised"} =>
          /\ operator_to_look = {r.opno : r \in InputRefs}
          /\ attname_to_look = {AttKey(r) : r \in InputRefs}
          /\ Executions("RESOLVE_OPNAME") = IF InputRefs = {} THEN 0 ELSE 1
          /\ Executions("RESOLVE_ATTNAME") = IF InputRefs = {} THEN 0 ELSE 1
    /\ (quallist = <<>> /\ rq_pc \in {"done", "raised"}) =>
          /\ RQReturned
          /\ new_qual_list = <<>>
          /\ rq_queries = <<>>

\* C4, its case: two rows holding three references and two operator ids,
\* resolved by two queries.
C4_Witness ==
    /\ RQReturned
    /\ Len(quallist) = 2
    /\ Len(quallist[1].quals.items) + Len(quallist[2].quals.items) = 3
    /\ Cardinality(operator_to_look) = 2
    /\ rq_queries = <<"RESOLVE_OPNAME", "RESOLVE_ATTNAME">>

\* What the row does as a one-element list: the error of its references.
AsOneElementList(row) ==
    ResolveParts(ComposedQual(None, None, row.nbfiltered, row.filter_ratio,
                              row.count, None, row.qualid),
                 KeepRelations(<<row.quals.items[1]>>))

\* C5: a row whose qual attribute is one predicate reference, not a list,
\* is treated like the list of that reference: the call does not fail
\* where the list would not, and the row's ComposedQual has the one part.
C5_SingleReferenceAccepted ==
    /\ (RQRaised /\ ~quallist[rq_i].quals.isList) =>
          rq_error = AsOneElementList(quallist[rq_i]).exc
    /\ \A i \in 1..Len(new_qual_list) :
          ~quallist[i].quals.isList =>
              new_qual_list[i] = AsOneElementList(quallist[i]).self

(***************************************************************************)
(* ComposedQual.append: claim C2 (SpecCQ)                                  *)
(***************************************************************************)

\* C2, as claimed: once the ComposedQual has a relation name, every part it
\* holds has that relation name (append refuses the others).
C2_PartsOnOneRelation ==
    cq_self.relname # None =>
        \A k \in 1..Len(cq_self.quals) :
            cq_self.quals[k].relname = cq_self.relname

\* C2, amended: append raises ValueError exactly when the element is not a
\* ResolvedQual, and then leaves the parts as they were; a ResolvedQual is
\* added at the end of the parts, whatever its relation and the relation
\* of the ComposedQual, and nothing else of the ComposedQual changes.
C2_AppendTestsTheTypeOnly ==
    [][ cq_calls' = cq_calls + 1 =>
          IF cq_arg'.class = "ResolvedQual"
          THEN /\ cq_exc' = "none"
               /\ cq_self'.quals = Append(cq_self.quals, cq_arg')
               /\ cq_self' = [cq_self EXCEPT !.quals = cq_self'.quals]
          ELSE /\ cq_exc' = "ValueError"
               /\ cq_self' = cq_self ]_vars

\* C2, its case: a ResolvedQual on u was appended to a ComposedQual on t
\* that already had a part, without an exception.
C2_Witness ==
    /\ cq_self.relname = "t"
    /\ cq_exc = "none"
    /\ cq_arg.class = "ResolvedQual"
    /\ cq_arg.relname = "u"
    /\ Len(cq_self.quals) >= 2
    /\ cq_self.quals[Len(cq_self.quals)] = cq_arg

(***************************************************************************)
(* format_jumbled_query: claim C6 (SpecFJ)                                 *)
(***************************************************************************)

\* The number of placeholders among the first p tokens of sql.
Placeholders(sql, p) == Cardinality({j \in 1..p : sql[j] = "?"})

\* The claimed result: the i-th placeholder becomes the i-th constant while
\* there is one, and every other token stays.
Positional(sql, params) ==
    [p \in 1..Len(sql) |->
        IF sql[p] = "?" /\ Placeholders(sql, p) <= Len(params)
        THEN params[Placeholders(sql, p)]
        ELSE sql[p]]

\* C6: format_jumbled_query(sql, params) replaces the i-th placeholder by
\* the i-th constant for every i up to min(n, k) and changes nothing else;
\* with fewer constants than placeholders the first k are replaced and the
\* others stay '?'; extra constants are ignored.
C6_PositionalSubstitution ==
    fj_pc = "done" => fj_result = Positional(fj_sql, fj_params)

(***************************************************************************)
(* get_plans: claims C7, C8 (SpecGP)                                       *)
(***************************************************************************)

\* C7: each of the three Plans has, as query, the jumbled query given to
\* get_plans with the constants of its own criterion substituted, and as
\* values those constants.
C7_OwnConstantsInJumbledQuery ==
    gp_pc = "done" =>
        \A k \in 1..Len(gp_plans) :
            /\ gp_plans[k].values = gp_qual[k].constants
            /\ gp_plans[k].query =
                   format_jumbled_query(gp_jumbled, gp_qual[k].constants)

\* C8: get_plans never raises; every EXPLAIN executed is recorded by a
\* Plan; when it returns there are three Plans, 'most filtering', 'least
\* filtering', 'most executed' in this order, three EXPLAINs were executed,
\* and the plan of each is "N/A" if its own EXPLAIN failed and the text its
\* own EXPLAIN returned otherwise.
C8_ThreePlansWhateverFails ==
    /\ gp_pc # "raised"
    /\ gp_pc \in {"loop", "done"} => Len(gp_plans) = Len(gp_executed)
    /\ gp_pc = "done" =>
          /\ Len(gp_plans) = 3
          /\ [k \in 1..3 |-> gp_plans[k].title]
                = <<"most filtering", "least filtering", "most executed">>
    /\ \A k \in 1..Len(gp_plans) :
          /\ gp_plans[k].query = gp_executed[k].query
          /\ gp_plans[k].plan = IF gp_executed[k].outcome.raises THEN "N/A"
                                ELSE gp_executed[k].outcome.text

\* C8, its case: the first and the third EXPLAIN failed, the second gave
\* its plan, and get_plans returned.
C8_Witness ==
    /\ gp_pc = "done"
    /\ gp_executed[1].outcome.raises
    /\ ~gp_executed[2].outcome.raises
    /\ gp_executed[3].outcome.raises
    /\ gp_plans[2].plan = "Index Scan"

(***************************************************************************)
(* possible_indexes: claim C9 (SpecPI)                                     *)
(***************************************************************************)

\* The access methods a part supports.
MethodsOf(part) == {part.indexam_names[j] : j \in 1..Len(part.indexam_names)}

\* C9: the result has exactly one HypoIndex per access method that some
\* part supports, and none for another method; the HypoIndex of method m
\* holds the parts that support m, all of them, in the order of the
\* ComposedQual, and has nspname and relname of the first of them.
C9_OneIndexPerMethod ==
    pi_pc = "done" =>
        LET methods == UNION {MethodsOf(pi_composed[j]) : j \in 1..Len(pi_composed)}
        IN /\ {pi_indexes[k].amname : k \in 1..Len(pi_indexes)} = methods
           /\ Len(pi_indexes) = Cardinality(methods)
           /\ \A k \in 1..Len(pi_indexes) :
                 LET index == pi_indexes[k]
                     SupportsIt(part) == index.amname \in MethodsOf(part)
                 IN /\ index.qual = SelectSeq(pi_composed, SupportsIt)
                    /\ index.nspname = index.qual[1].nspname
                    /\ index.relname = index.qual[1].relname

\* C9, its case: two indexes were returned, one of them over the same part
\* twice and over parts of two relations, the first part supporting both
\* methods.
C9_Witness ==
    /\ pi_pc = "done"
    /\ Len(pi_indexes) = 2
    /\ Len(pi_composed[1].indexam_names) = 2
    /\ \E k \in 1..2 :
          /\ Len(pi_indexes[k].qual) = 3
          /\ pi_indexes[k].qual[1] = pi_indexes[k].qual[2]
          /\ pi_indexes[k].qual[3].relname # pi_indexes[k].qual[1].relname

(***************************************************************************)
(* get_hypoplans: claim C10 (SpecHP)                                       *)
(***************************************************************************)

\* s is a prefix of t.
IsPrefix(s, t) == Len(s) <= Len(t) /\ \A k \in 1..Len(s) : s[k] = t[k]

\* C10: the statements get_hypoplans has issued are at any time the first
\* ones of: disable the extension, EXPLAIN, enable the extension, EXPLAIN,
\* each issued inside the transaction; the baseline plan is the answer of
\* an EXPLAIN run with the extension disabled and the hypothetical plan of
\* one run with it enabled; costs and used indexes are computed only after
\* the four statements, with both plans captured and the transaction
\* ended; a call that returns has issued exactly the four.
C10_OffExplainOnExplain ==
    LET n == Len(hp_statements)
    IN /\ IsPrefix([k \in 1..n |-> hp_statements[k].sql],
                   <<"SET hypopg.enabled = off", "EXPLAIN query",
                     "SET hypopg.enabled = on", "EXPLAIN query">>)
       /\ \A k \in 1..n : hp_statements[k].in_trans
       /\ baseplan # UnboundPlan =>
             /\ n >= 2
             /\ hp_statements[2].sql = "EXPLAIN query"
             /\ ~hp_statements[2].enabled
       /\ hypoplan # UnboundPlan =>
             /\ n = 4
             /\ baseplan # UnboundPlan
             /\ hp_statements[4].sql = "EXPLAIN query"
             /\ hp_statements[4].enabled
       /\ (n >= 2) => baseplan # UnboundPlan
       /\ (n = 4) => hypoplan # UnboundPlan
       /\ (basecost # Unbound \/ hypocost # Unbound \/ used_indexes # <<>>
             \/ hp_pc \in {"used", "done"}) =>
             /\ n = 4
             /\ ~hp_in_trans
             /\ baseplan # UnboundPlan
             /\ hypoplan # UnboundPlan
       /\ hp_pc = "done" =>
             /\ basecost = baseplan.cost
             /\ hypocost = hypoplan.cost

\* C10, its case: the session had the extension enabled before the call,
\* the call returned, and an index was found in the hypothetical plan.
C10_Witness ==
    /\ hp_pc = "done"
    /\ hp_statements[1].before
    /\ used_indexes # <<>>
    /\ baseplan # hypoplan

====
